---------------------------- MODULE Spec2Model ----------------------------
(***************************************************************************)
(* A model of the object codec of toy_git (src/toy_git/src/main.rs):       *)
(* File (tree entry), Tree, User (identity line) and Commit decoding and   *)
(* the File/Tree encoders.                                                 *)
(*                                                                         *)
(* Byte buffers are sequences of integers 0..255.  The buffers of the      *)
(* model are drawn from ASCII bytes and the byte 0xFF, which never occurs  *)
(* in valid UTF-8; for such buffers String::from_utf8 succeeds exactly     *)
(* when no byte is above 0x7F, and the Unicode whitespace of               *)
(* split_whitespace / trim is the ASCII whitespace (9..13 and 32).         *)
(* Every numeric token of the model has at most nine digits, so neither    *)
(* usize, i64 nor i32 parsing can overflow.  The i32 product               *)
(* x / 100 * 60 * 60 of User::from can: a build with overflow checks (the  *)
(* debug profile) aborts there and a build without them (the release       *)
(* profile) wraps modulo 2^32; `build` is which of the two the program is. *)
(*                                                                         *)
(* The result of a call is a record [tag, val]: tag "Some" or "None" for   *)
(* the returned Option, and tag "Panic" when the call aborts (an index or  *)
(* split_at out of bounds, an i32 overflow in a checked build, or a chrono  *)
(* constructor out of range).                                              *)
(***************************************************************************)
EXTENDS Integers, Sequences, FiniteSets, TLC

\* ------------------------------------------------------------ bounds
\* Most entries of a Tree value.
MaxEntries == 2
\* Most null-delimited pieces after the first in a hand-made tree buffer.
MaxPieces == 2
\* Longest header handed to File::from on its own.
MaxHeaderLen == 5

\* --------------------------------------------------- program constants
NUL == 0
LF == 10
SP == 32
LT == 60
GT == 62
HashLen == 20

\* ------------------------------------------------------- option values
Some(v) == [tag |-> "Some", val |-> v]
None == [tag |-> "None", val |-> <<>>]
Panic == [tag |-> "Panic", val |-> <<>>]

\* ------------------------------------------------------ byte utilities
\* String::from_utf8(..).is_ok(), for buffers over ASCII and 0xFF.
IsUtf8(s) == \A i \in 1..Len(s) : s[i] < 128

\* char::is_whitespace, on ASCII.
IsWs(b) == b \in {9, 10, 11, 12, 13, 32}

IsDigit(b) == b >= 48 /\ b <= 57

\* Position of the first byte of s equal to d, or 0.
RECURSIVE FindFrom(_, _, _)
FindFrom(s, d, i) ==
  IF i > Len(s) THEN 0
  ELSE IF s[i] = d THEN i
  ELSE FindFrom(s, d, i + 1)

Find(s, d) == FindFrom(s, d, 1)

\* slice::split(|b| b == d): the pieces between the delimiters; always at
\* least one piece, and empty pieces are kept.
RECURSIVE SplitOn(_, _)
SplitOn(s, d) ==
  LET p == Find(s, d)
  IN  IF p = 0 THEN <<s>>
      ELSE <<SubSeq(s, 1, p - 1)>> \o SplitOn(SubSeq(s, p + 1, Len(s)), d)

\* splitn(n, d): at most n pieces; the last one holds all the bytes left,
\* delimiters included.
RECURSIVE Splitn(_, _, _)
Splitn(s, d, n) ==
  LET p == Find(s, d)
  IN  IF n <= 1 \/ p = 0 THEN <<s>>
      ELSE <<SubSeq(s, 1, p - 1)>> \o Splitn(SubSeq(s, p + 1, Len(s)), d, n - 1)

\* x.splitn(2, |&x| x == b' ').skip(1).flatten(): the bytes after the first
\* space, and nothing when the line has no space.
AfterFirstSpace(line) ==
  LET parts == Splitn(line, SP, 2)
  IN  IF Len(parts) < 2 THEN <<>> ELSE parts[2]

\* str::trim_matches: the bytes of `set` dropped from both ends.
RECURSIVE TrimStart(_, _)
TrimStart(s, set) ==
  IF s # <<>> /\ Head(s) \in set THEN TrimStart(Tail(s), set) ELSE s

RECURSIVE TrimEnd(_, _)
TrimEnd(s, set) ==
  IF s # <<>> /\ s[Len(s)] \in set THEN TrimEnd(SubSeq(s, 1, Len(s) - 1), set) ELSE s

TrimMatches(s, set) == TrimEnd(TrimStart(s, set), set)

\* str::trim, on ASCII.
Trim(s) == TrimMatches(s, {9, 10, 11, 12, 13, 32})

\* str::split_whitespace: the maximal runs of non-whitespace bytes.
RECURSIVE SplitWhitespaceFrom(_, _, _)
SplitWhitespaceFrom(s, i, cur) ==
  IF i > Len(s) THEN (IF cur = <<>> THEN <<>> ELSE <<cur>>)
  ELSE IF IsWs(s[i])
       THEN (IF cur = <<>> THEN <<>> ELSE <<cur>>) \o SplitWhitespaceFrom(s, i + 1, <<>>)
       ELSE SplitWhitespaceFrom(s, i + 1, Append(cur, s[i]))

SplitWhitespace(s) == SplitWhitespaceFrom(s, 1, <<>>)

\* The value of a run of decimal digits.
RECURSIVE DigitsValue(_, _)
DigitsValue(s, acc) ==
  IF s = <<>> THEN acc
  ELSE DigitsValue(Tail(s), acc * 10 + (Head(s) - 48))

AllDigits(s) == s # <<>> /\ \A i \in 1..Len(s) : IsDigit(s[i])

\* str::parse::<usize>: an optional '+', then one or more digits.
ParseUsize(tok) ==
  LET body == IF tok # <<>> /\ Head(tok) = 43 THEN Tail(tok) ELSE tok
  IN  IF AllDigits(body) THEN Some(DigitsValue(body, 0)) ELSE None

\* str::parse::<i32> and str::parse::<i64>: an optional sign, then one or
\* more digits.
ParseSigned(tok) ==
  LET signed == tok # <<>> /\ Head(tok) \in {43, 45}
      body == IF signed THEN Tail(tok) ELSE tok
  IN  IF ~AllDigits(body) THEN None
      ELSE IF signed /\ Head(tok) = 45 THEN Some(0 - DigitsValue(body, 0))
      ELSE Some(DigitsValue(body, 0))

\* format!("{}", n) of a usize: its decimal digits.
RECURSIVE ToDecimal(_)
ToDecimal(n) ==
  IF n < 10 THEN <<48 + n>>
  ELSE Append(ToDecimal(n \div 10), 48 + (n % 10))

\* ------------------------------------------------------------- File
\* File::from(header, hash).  Tokens after the second are not looked at.
FileFrom(header, hash) ==
  IF ~IsUtf8(header) THEN None
  ELSE LET toks == SplitWhitespace(header)
       IN  IF Len(toks) < 1 THEN None
           ELSE LET mode == ParseUsize(toks[1])
                IN  IF mode.tag = "None" THEN None
                    ELSE IF Len(toks) < 2 THEN None
                    ELSE Some([mode |-> mode.val, name |-> toks[2], hash |-> hash])

\* File::encode: "{mode} {name}\0" followed by the hash bytes.
FileEncode(f) == ToDecimal(f.mode) \o <<SP>> \o f.name \o <<NUL>> \o f.hash

\* ------------------------------------------------------------- Tree
\* TreeFold with the hash of a piece paired with the header that follows it
\* in the same piece instead of the header carried in.
RECURSIVE TreeFoldHashOfNext(_, _, _, _)
TreeFoldHashOfNext(pieces, i, header, acc) ==
  IF i > Len(pieces) THEN Some(acc)
  ELSE LET x == pieces[i]
       IN  IF Len(x) < HashLen THEN Panic
           ELSE LET hash == SubSeq(x, 1, HashLen)
                    next_header == SubSeq(x, HashLen + 1, Len(x))
                    file == FileFrom(next_header, hash)
                IN  IF file.tag = "None" THEN None
                    ELSE TreeFoldHashOfNext(pieces, i + 1, next_header, Append(acc, file.val))

\* The try_fold of Tree::from over the pieces after the first: split_at(20)
\* aborts on a piece shorter than 20 bytes; the header carried in is parsed
\* with the first 20 bytes of the piece as its hash; the rest of the piece
\* is the next header.  The header left after the last piece is dropped.
RECURSIVE TreeFold(_, _, _, _)
TreeFold(pieces, i, header, acc) ==
  IF i > Len(pieces) THEN Some(acc)
  ELSE LET x == pieces[i]
       IN  IF Len(x) < HashLen THEN Panic
           ELSE LET hash == SubSeq(x, 1, HashLen)
                    next_header == SubSeq(x, HashLen + 1, Len(x))
                    file == FileFrom(header, hash)
                IN  IF file.tag = "None" THEN None
                    ELSE TreeFold(pieces, i + 1, next_header, Append(acc, file.val))

\* Tree::from(bytes): the contents, in order.
TreeFrom(bytes) ==
  LET pieces == SplitOn(bytes, NUL)
  IN  TreeFold(pieces, 2, pieces[1], <<>>)

\* The concatenation of the entries' encode() outputs (the flat_map of
\* Tree::as_bytes).
RECURSIVE TreeBody(_)
TreeBody(contents) ==
  IF contents = <<>> THEN <<>>
  ELSE FileEncode(Head(contents)) \o TreeBody(Tail(contents))

\* Tree::as_bytes: "tree {len}\0" followed by the body.
TreeAsBytes(contents) ==
  LET content == TreeBody(contents)
  IN  <<116, 114, 101, 101, SP>> \o ToDecimal(Len(content)) \o <<NUL>> \o content

\* ------------------------------------------------------------- User
\* Integer division of Rust: truncated toward zero.
Quot(x, y) == IF x >= 0 THEN x \div y ELSE 0 - ((0 - x) \div y)

\* FixedOffset::east(secs): seconds east of UTC; aborts outside a day.
FixedOffsetEast(secs) ==
  IF secs > -86400 /\ secs < 86400 THEN Some(secs) ELSE Panic

\* FixedOffset::west(secs): the offset is -secs; aborts outside a day.
FixedOffsetWest(secs) ==
  IF secs > -86400 /\ secs < 86400 THEN Some(0 - secs) ELSE Panic

\* The build profiles: with and without integer overflow checks.
Builds == {"debug", "release"}

\* The program's build profile.
VARIABLE build

\* The i32 product p * 60: whether it leaves the i32 range, and its value
\* wrapped modulo 2^32 (computed on 16-bit halves of p).
Mul60(p) ==
  IF p >= -35791394 /\ p <= 35791394
  THEN [overflow |-> FALSE, val |-> p * 60]
  ELSE LET l == p % 65536
           h == p \div 65536
           lo == (l * 60) % 65536
           hi == (h * 60 + (l * 60) \div 65536) % 65536
       IN  [overflow |-> TRUE,
            val |-> (IF hi >= 32768 THEN hi - 65536 ELSE hi) * 65536 + lo]

\* The closure of User::from applied to the parsed offset token x:
\* x / 100 * 60 * 60 in i32 arithmetic, handed to west or east.
OffsetOf(x) ==
  LET m1 == Mul60(Quot(x, 100))
      m2 == Mul60(m1.val)
  IN  IF (m1.overflow \/ m2.overflow) /\ build = "debug" THEN Panic
      ELSE IF x < 0 THEN FixedOffsetWest(m2.val)
      ELSE FixedOffsetEast(m2.val)

\* User::from(bytes).  The decoded identity is [name, email, ts, offset]:
\* ts in seconds since the epoch, offset in seconds east of UTC.
\* (Utc.timestamp aborts only beyond the range of chrono's dates, which no
\* token of at most nine digits reaches.)
UserFrom(bytes) ==
  LET lt == Find(bytes, LT)
      nameBytes == IF lt = 0 THEN bytes ELSE SubSeq(bytes, 1, lt - 1)
      info == IF lt = 0 THEN <<>> ELSE SubSeq(bytes, lt, Len(bytes))
      toks == Splitn(info, SP, 3)
  IN  IF ~IsUtf8(nameBytes) THEN None
      ELSE IF ~IsUtf8(info) THEN None
      ELSE IF Len(toks) < 2 THEN None
      ELSE LET ts == ParseSigned(toks[2])
           IN  IF ts.tag = "None" THEN None
               ELSE IF Len(toks) < 3 THEN None
               ELSE LET x == ParseSigned(toks[3])
                    IN  IF x.tag = "None" THEN None
                        ELSE LET offset == OffsetOf(x.val)
                             IN  IF offset.tag = "Panic" THEN Panic
                                 ELSE Some([name |-> Trim(nameBytes),
                                            email |-> TrimMatches(toks[1], {LT, GT}),
                                            ts |-> ts.val,
                                            offset |-> offset.val])

\* ------------------------------------------------------------ Commit
\* The label "parent".
ParentLabel == <<112, 97, 114, 101, 110, 116>>

\* String::from_utf8(x).ok().unwrap_or_default()
Utf8OrDefault(x) == IF IsUtf8(x) THEN x ELSE <<>>

\* The non-empty lines of the buffer.
CommitLines(bytes) == SelectSeq(SplitOn(bytes, LF), LAMBDA x : x # <<>>)

\* The `parent` value of Commit::from for the lines of the buffer: tag "Ok"
\* with the reference, tag "Err" with the bytes put back together for the
\* author, or tag "Panic" when x[1] is indexed on a line without a space.
ParentOf(lines) ==
  IF Len(lines) < 2 THEN [tag |-> "Err", val |-> <<>>]
  ELSE LET raw == Splitn(lines[2], SP, 2)
           x == [i \in 1..Len(raw) |-> Utf8OrDefault(raw[i])]
       IN  IF Len(x) < 2 THEN Panic
           ELSE IF x[1] = ParentLabel THEN [tag |-> "Ok", val |-> x[2]]
           ELSE [tag |-> "Err", val |-> x[1] \o <<SP>> \o x[2]]

\* Commit::from(bytes).  The decoded commit is [tree, parent, author,
\* committer, message], parent being an option.
CommitFrom(bytes) ==
  LET lines == CommitLines(bytes)
  IN  IF Len(lines) < 1 THEN None
      ELSE IF ~IsUtf8(AfterFirstSpace(lines[1])) THEN None
      ELSE LET parent == ParentOf(lines)
           IN  IF parent.tag = "Panic" THEN Panic
               ELSE LET isOk == parent.tag = "Ok"
                        nxt == IF isOk THEN 4 ELSE 3
                        authorLine ==
                          IF isOk
                          THEN (IF Len(lines) >= 3 THEN Some(lines[3]) ELSE None)
                          ELSE Some(parent.val)
                        author ==
                          IF authorLine.tag = "None" THEN None
                          ELSE UserFrom(AfterFirstSpace(authorLine.val))
                    IN  IF author.tag # "Some" THEN author
                        ELSE IF Len(lines) < nxt THEN None
                        ELSE LET committer == UserFrom(AfterFirstSpace(lines[nxt]))
                             IN  IF committer.tag # "Some" THEN committer
                                 ELSE IF Len(lines) < nxt + 1 THEN None
                                 ELSE IF ~IsUtf8(lines[nxt + 1]) THEN None
                                 ELSE Some([tree |-> AfterFirstSpace(lines[1]),
                                            parent |-> IF isOk THEN Some(parent.val) ELSE None,
                                            author |-> author.val,
                                            committer |-> committer.val,
                                            message |-> lines[nxt + 1]])

\* ----------------------------------------------------------- inputs
\* Tree entries: modes 0 and 100644; the names "a", "" and a name of 14
\* bytes (with it "100644 <name>" is 21 bytes long); hashes of 20 bytes:
\* all 0xAB, the bytes 1..20, all zero, and sevens with one zero byte.
Modes == {0, 100644}
LongName == [i \in 1..14 |-> 97 + i]
Names == {<<97>>, <<>>, LongName}
HashA == [i \in 1..HashLen |-> 171]
HashSeq == [i \in 1..HashLen |-> i]
HashZero == [i \in 1..HashLen |-> 0]
HashMidZero == [i \in 1..HashLen |-> IF i = 10 THEN 0 ELSE 7]
Hashes == {HashA, HashSeq, HashZero, HashMidZero}
Files == [mode : Modes, name : Names, hash : Hashes]
Trees == UNION {[1..n -> Files] : n \in 0..MaxEntries}

\* Hand-made tree buffers: a first header, then pieces "\0 <hash part>
\* <header>" whose hash part has 20, 3 or 0 bytes.  The headers are "",
\* "1 a", "x", "1" and the byte 0xFF.
RawHeaders == {<<>>, <<49, 32, 97>>, <<120>>, <<49>>, <<255>>}
RawHashParts == {HashA, <<1, 2, 3>>, <<>>}
RawPieces == [hash : RawHashParts, header : RawHeaders]

RECURSIVE JoinPieces(_)
JoinPieces(ps) ==
  IF ps = <<>> THEN <<>>
  ELSE <<NUL>> \o Head(ps).hash \o Head(ps).header \o JoinPieces(Tail(ps))

RawTreeBufs ==
  {h \o JoinPieces(ps) : h \in RawHeaders,
                         ps \in UNION {[1..n -> RawPieces] : n \in 0..MaxPieces}}

\* Headers for File::from on its own: every string of '1', 'a', ' ' and
\* 0xFF up to MaxHeaderLen bytes.
HeaderBytes == {49, 97, 32, 255}
FileHeaders == UNION {[1..n -> HeaderBytes] : n \in 0..MaxHeaderLen}

\* Identity lines "{name}{email}[ {ts}[ {offset}]]".
UserNames == {<<65, 32>>, <<>>, <<32, 65, 32, 66, 32>>}
UserEmails == {<<60, 101, 62>>, <<101, 62>>}
TsTokens == {<<49>>, <<45, 49>>, <<120>>, <<>>}
OffsetTokens ==
  {<<45, 53, 48, 48>>, <<43, 48, 57, 48, 48>>, <<43, 48, 53, 51, 48>>, <<45, 48, 53, 51, 48>>, <<48>>, <<45, 48>>,
   <<43, 50, 52, 48, 48>>, <<45, 50, 52, 48, 48>>, <<120>>, <<>>, <<43, 48, 57, 48, 48, 32>>,
   <<49, 49, 57, 51, 48, 52, 55, 48, 48>>, <<45, 49, 49, 57, 51, 48, 52, 55, 48, 48>>, <<50, 51, 56, 54, 48, 57, 51, 48, 48>>}
UserArgs ==
  [name : UserNames, email : UserEmails, ts : TsTokens, off : OffsetTokens, ntok : 1..3]

UserLine(a) ==
  a.name \o a.email
    \o (IF a.ntok >= 2 THEN <<SP>> \o a.ts ELSE <<>>)
    \o (IF a.ntok >= 3 THEN <<SP>> \o a.off ELSE <<>>)

\* Commit buffers: the header lines that are present, each ended by a
\* newline, then a blank line and the message.  An empty line stands for a
\* line that is left out.
TreeLines == {<<116, 114, 101, 101, 32, 116>>, <<116, 114, 101, 101>>, <<116, 114, 101, 101, 32, 255>>}
ParentLines == {<<>>, <<112, 97, 114, 101, 110, 116, 32, 112>>, <<112, 97, 114, 101, 110, 116>>}
AuthorLines ==
  {<<97, 117, 116, 104, 111, 114, 32, 65, 32, 60, 101, 62, 32, 49, 32, 43, 48, 57, 48, 48>>, <<97, 117, 116, 104, 111, 114>>, <<97, 117, 116, 104, 111, 114, 32, 65, 32, 60, 101, 62, 32, 49, 32, 43, 50, 52, 48, 48>>, <<>>,
   <<97, 117, 116, 104, 111, 114, 32, 65, 32, 60, 101, 62, 32, 49, 32, 49, 49, 57, 51, 48, 52, 55, 48, 48>>}
CommitterLines == {<<99, 111, 109, 109, 105, 116, 116, 101, 114, 32, 67, 32, 60, 99, 62, 32, 50, 32, 43, 48, 49, 48, 48>>, <<99, 111, 109, 109, 105, 116, 116, 101, 114>>, <<>>}
Messages == {<<>>, <<109>>, <<109>> \o <<LF>> \o <<110>>, <<109>> \o <<LF, LF>> \o <<110>>, <<255>>}
CommitArgs ==
  [tree : TreeLines, parent : ParentLines, author : AuthorLines,
   committer : CommitterLines, message : Messages]

HeaderLine(l) == IF l = <<>> THEN <<>> ELSE l \o <<LF>>

CommitBuf(a) ==
  HeaderLine(a.tree) \o HeaderLine(a.parent) \o HeaderLine(a.author)
    \o HeaderLine(a.committer) \o <<LF>> \o a.message

\* ------------------------------------------------------ state machine
\* kind: which decoder the input is for; arg: the value or the parts the
\* buffer is made from; via: how the buffer of a Tree value was produced;
\* buf: the byte buffer; pc: "value" (a Tree value not yet encoded),
\* "bytes" (a buffer ready to decode) or "done"; out: the decoder's result.
VARIABLES kind, arg, via, buf, pc, out

vars == <<build, kind, arg, via, buf, pc, out>>

Pending == [tag |-> "Pending", val |-> <<>>]

Init ==
  /\ build \in Builds
  /\ out = Pending
  /\ \/ /\ kind = "tree"
        /\ arg \in Trees
        /\ via = "none"
        /\ buf = <<>>
        /\ pc = "value"
     \/ /\ kind = "treebuf"
        /\ arg = <<>>
        /\ via = "raw"
        /\ buf \in RawTreeBufs
        /\ pc = "bytes"
     \/ /\ kind = "file"
        /\ arg = HashA
        /\ via = "raw"
        /\ buf \in FileHeaders
        /\ pc = "bytes"
     \/ /\ kind = "user"
        /\ arg \in UserArgs
        /\ via = "raw"
        /\ buf = UserLine(arg)
        /\ pc = "bytes"
     \/ /\ kind = "commit"
        /\ arg \in CommitArgs
        /\ via = "raw"
        /\ buf = CommitBuf(arg)
        /\ pc = "bytes"

\* t.as_bytes() of a Tree value.
TreeAsBytesStep ==
  /\ kind = "tree" /\ pc = "value"
  /\ buf' = TreeAsBytes(arg)
  /\ via' = "as_bytes"
  /\ pc' = "bytes"
  /\ UNCHANGED <<build, kind, arg, out>>

\* The entries' encode() outputs, concatenated: the tree body.
EncodeEntriesStep ==
  /\ kind = "tree" /\ pc = "value"
  /\ buf' = TreeBody(arg)
  /\ via' = "encode"
  /\ pc' = "bytes"
  /\ UNCHANGED <<build, kind, arg, out>>

TreeFromStep ==
  /\ kind \in {"tree", "treebuf"} /\ pc = "bytes"
  /\ out' = TreeFrom(buf)
  /\ pc' = "done"
  /\ UNCHANGED <<build, kind, arg, via, buf>>

FileFromStep ==
  /\ kind = "file" /\ pc = "bytes"
  /\ out' = FileFrom(buf, arg)
  /\ pc' = "done"
  /\ UNCHANGED <<build, kind, arg, via, buf>>

UserFromStep ==
  /\ kind = "user" /\ pc = "bytes"
  /\ out' = UserFrom(buf)
  /\ pc' = "done"
  /\ UNCHANGED <<build, kind, arg, via, buf>>

CommitFromStep ==
  /\ kind = "commit" /\ pc = "bytes"
  /\ out' = CommitFrom(buf)
  /\ pc' = "done"
  /\ UNCHANGED <<build, kind, arg, via, buf>>

Next ==
  \/ TreeAsBytesStep
  \/ EncodeEntriesStep
  \/ TreeFromStep
  \/ FileFromStep
  \/ UserFromStep
  \/ CommitFromStep

Spec == Init /\ [][Next]_vars

TypeOK ==
  /\ build \in Builds
  /\ kind \in {"tree", "treebuf", "file", "user", "commit"}
  /\ pc \in {"value", "bytes", "done"}
  /\ out.tag \in {"Pending", "Some", "None", "Panic"}
  /\ (pc = "done") = (out.tag # "Pending")

\* ------------------------------------------------------------ claims
NoWsNoNul(n) == \A i \in 1..Len(n) : ~IsWs(n[i]) /\ n[i] # NUL
ValidName(n) == n # <<>> /\ NoWsNoNul(n)
NoNul(h) == \A i \in 1..Len(h) : h[i] # NUL

TreeDecoded(how) == kind = "tree" /\ pc = "done" /\ via = how

\* C1: Tree round trip.  For a Tree whose entries have a non-empty name
\* without whitespace or null bytes and a 20-byte hash, Tree::from of
\* as_bytes() is Some of the same entries.
C1_RoundTrip ==
  (/\ TreeDecoded("as_bytes")
   /\ \A i \in 1..Len(arg) :
        arg[i].mode >= 0 /\ ValidName(arg[i].name) /\ Len(arg[i].hash) = HashLen)
  => out = Some(arg)

\* C2: a buffer in which a null-delimited piece after the first has fewer
\* than 20 bytes decodes to None (Tree::from does not abort).
C2_TruncatedHashIsNone ==
  (/\ kind \in {"tree", "treebuf"} /\ pc = "done"
   /\ \E i \in 2..Len(SplitOn(buf, NUL)) : Len(SplitOn(buf, NUL)[i]) < HashLen)
  => out.tag = "None"

\* C3: Commit::from ends with Some or None on every buffer, and with None
\* when fewer than three lines are present or when one of the first three
\* lines is a label without a space.
C3_CommitNeverAborts ==
  (kind = "commit" /\ pc = "done")
  => LET lines == CommitLines(buf)
     IN  /\ out.tag \in {"Some", "None"}
         /\ (Len(lines) < 3 => out.tag = "None")
         /\ ((\E i \in 1..Len(lines) : i <= 3 /\ Find(lines[i], SP) = 0)
               => out.tag = "None")

\* C4: optional-parent lookahead.  With a readable tree line and a second
\* line: if the second line's first token is `parent`, the parent is the
\* rest of that line and the author and the committer are read from the
\* third and fourth lines; otherwise the parent is absent and the author and
\* the committer are read from the second and third lines.  A line that does
\* not parse as an author makes the result None.
C4_ParentLookahead ==
  (/\ kind = "commit" /\ pc = "done"
   /\ Len(CommitLines(buf)) >= 2
   /\ IsUtf8(AfterFirstSpace(CommitLines(buf)[1])))
  => LET lines == CommitLines(buf)
         isParent == Splitn(lines[2], SP, 2)[1] = ParentLabel
         a == IF isParent THEN 3 ELSE 2
         author == IF Len(lines) >= a THEN UserFrom(AfterFirstSpace(lines[a])) ELSE None
     IN  /\ author.tag = "None" => out.tag = "None"
         /\ out.tag = "Some" =>
              /\ out.val.parent =
                   (IF isParent THEN Some(AfterFirstSpace(lines[2])) ELSE None)
              /\ out.val.author = author.val
              /\ out.val.committer = UserFrom(AfterFirstSpace(lines[a + 1])).val

\* C5: the message of a decoded commit is every byte after the committer
\* line and the blank line, newlines included.
C5_MessageWhole ==
  (/\ kind = "commit" /\ pc = "done" /\ out.tag = "Some"
   /\ arg.tree # <<>> /\ arg.author # <<>> /\ arg.committer # <<>>)
  => out.val.message = arg.message

\* The offset, in seconds east of UTC, that a token with the number x
\* (sign, hours in the hundreds, minutes below) stands for.
HHMMSeconds(x) ==
  LET mag == IF x < 0 THEN 0 - x ELSE x
      secs == (mag \div 100) * 3600 + (mag % 100) * 60
  IN  IF x < 0 THEN 0 - secs ELSE secs

\* C6: the offset of a decoded identity has the sign, the hours and the
\* minutes of its offset token, for a token of the form +-HHMM (a number of
\* at most four digits).
C6_OffsetOfToken ==
  (/\ kind = "user" /\ pc = "done" /\ out.tag = "Some" /\ arg.ntok = 3
   /\ ParseSigned(arg.off).tag = "Some"
   /\ ParseSigned(arg.off).val > -10000 /\ ParseSigned(arg.off).val < 10000)
  => out.val.offset = HHMMSeconds(ParseSigned(arg.off).val)

\* C7: File::from is Some exactly when the header is valid text of exactly
\* two whitespace-separated tokens, the first parseable as a usize.
C7_ExactlyTwoTokens ==
  (kind = "file" /\ pc = "done")
  => (out.tag = "Some"
        <=> /\ IsUtf8(buf)
            /\ Len(SplitWhitespace(buf)) = 2
            /\ ParseUsize(SplitWhitespace(buf)[1]).tag = "Some")

\* C8 as stated: for k >= 1 entries whose names hold no whitespace or null
\* byte and whose hashes hold no null byte, Tree::from of the concatenated
\* encode() outputs is Some of the same k entries in order.
C8_Interleaved_Original ==
  (/\ TreeDecoded("encode") /\ Len(arg) >= 1
   /\ \A i \in 1..Len(arg) :
        NoWsNoNul(arg[i].name) /\ Len(arg[i].hash) = HashLen /\ NoNul(arg[i].hash))
  => out = Some(arg)

\* C8, amended: the same for entries whose names are also non-empty.
C8_Interleaved ==
  (/\ TreeDecoded("encode") /\ Len(arg) >= 1
   /\ \A i \in 1..Len(arg) :
        ValidName(arg[i].name) /\ Len(arg[i].hash) = HashLen /\ NoNul(arg[i].hash))
  => out = Some(arg)

\* Two entries with different names and different null-free hashes were
\* encoded and decoded back.
C8_Witness ==
  /\ TreeDecoded("encode") /\ Len(arg) = 2
  /\ \A i \in 1..2 : ValidName(arg[i].name) /\ NoNul(arg[i].hash)
  /\ arg[1].name # arg[2].name /\ arg[1].hash # arg[2].hash
  /\ out.tag = "Some" /\ Len(out.val) = 2
  /\ out.val[1].hash = arg[1].hash /\ out.val[2].hash = arg[2].hash

\* C9: each entry's hash is the 20 bytes after its header's null byte,
\* whatever their values: a hash holding zero bytes is decoded as such.
C9_HashBytesVerbatim ==
  (/\ TreeDecoded("encode")
   /\ \A i \in 1..Len(arg) : ValidName(arg[i].name) /\ Len(arg[i].hash) = HashLen)
  => /\ out.tag = "Some"
     /\ Len(out.val) = Len(arg)
     /\ \A i \in 1..Len(arg) : out.val[i].hash = arg[i].hash

\* The header segments of a buffer: the first null-delimited piece and the
\* bytes after the first 20 of each later piece.
HeaderSegments(bytes) ==
  LET pieces == SplitOn(bytes, NUL)
  IN  [i \in 1..Len(pieces) |->
         IF i = 1 THEN pieces[1] ELSE SubSeq(pieces[i], HashLen + 1, Len(pieces[i]))]

\* C10: a buffer with a non-empty header segment that fails Entry parsing
\* never decodes to Some, and decodes to None when every piece after the
\* first has its 20 hash bytes.
C10_BadHeaderIsNone ==
  (/\ kind = "treebuf" /\ pc = "done"
   /\ \E i \in 1..Len(HeaderSegments(buf)) :
        /\ HeaderSegments(buf)[i] # <<>>
        /\ FileFrom(HeaderSegments(buf)[i], HashA).tag = "None")
  => /\ out.tag # "Some"
     /\ (\A i \in 2..Len(SplitOn(buf, NUL)) : Len(SplitOn(buf, NUL)[i]) >= HashLen)
          => out.tag = "None"


=============================================================================
